---- MODULE Spec2Model ----
(***************************************************************************)
(* Model of the Dropbox MCP server (src/dockerfile.py): the process-wide   *)
(* client handle, the five tool operations, the content extractor and the  *)
(* substring scan of search_file_content.                                  *)
(*                                                                         *)
(* Strings are sequences of one-character strings; offsets are 0-based as  *)
(* in Python, so the character at offset p of s is s[p + 1].               *)
(***************************************************************************)
EXTENDS Integers, Sequences, FiniteSets, TLC

VARIABLES
    content,        \* search_file_content: extracted text being scanned
    query,          \* search_file_content: the query argument
    context_chars,  \* search_file_content: the context_chars argument
    start,          \* scan loop cursor
    matches,        \* scan loop: matches appended so far
    pc,             \* position of the scan loop: "scan" or "done"
    credential,     \* DROPBOX_ACCESS_TOKEN as the remote sees it: "missing", "rejected", "valid"
    dropbox_client, \* the module-level handle: NoClient (None) or a client object
    constructed,    \* how many client objects have been assigned to the handle
    phase,          \* "boot" before main ran, "serving" once tools can be called
    pdf_available,  \* whether the PyPDF2 import succeeded
    docx_available, \* whether the python-docx import succeeded
    store,          \* the remote store: what a download of each path yields
    call            \* the last completed operation: arguments, remote answers, outcome

scanVars == <<content, query, context_chars, start, matches, pc>>
toolVars == <<credential, dropbox_client, constructed, phase, pdf_available,
              docx_available, store, call>>
vars == <<content, query, context_chars, start, matches, pc, credential,
          dropbox_client, constructed, phase, pdf_available, docx_available,
          store, call>>

-----------------------------------------------------------------------------
(* Bounds of the model *)

MaxTextLen == 3
MaxQueryLen == 2
MaxContext == 1
MaxPaths == 2       \* length of file_paths
MaxResults == 1     \* max_results of search_files
MaxFiles == 1       \* max_files of list_files
MaxReadLength == 3  \* small max_length values of read_file

-----------------------------------------------------------------------------
(* Characters.  IDOT stands for U+0130 (capital I with dot above), the one  *)
(* code point whose str.lower() is two characters: "i" followed by CDOT,   *)
(* U+0307 (combining dot above).                                           *)

NL == "\n"
IDOT == "U+0130"
CDOT == "U+0307"

TextChars == {"a", "A", NL, IDOT}
QueryChars == {"a", "A", "i", CDOT}

\* a string literal as a sequence of one-character strings
Str(s) == [i \in 1..Len(s) |-> SubSeq(s, i, i)]

SeqsUpTo(S, n) == UNION {[1..k -> S] : k \in 0..n}

Texts == SeqsUpTo(TextChars, MaxTextLen)
Queries == SeqsUpTo(QueryChars, MaxQueryLen)

Max(a, b) == IF a >= b THEN a ELSE b
Min(a, b) == IF a <= b THEN a ELSE b

-----------------------------------------------------------------------------
(* Python string primitives used by the code *)

\* str.lower() of one character
UpperLetters == Str("ABCDEFGHIJKLMNOPQRSTUVWXYZ")
LowerLetters == Str("abcdefghijklmnopqrstuvwxyz")

LowerChar(c) ==
    IF c = IDOT THEN <<"i", CDOT>>
    ELSE IF \E i \in 1..Len(UpperLetters) : UpperLetters[i] = c
         THEN <<LowerLetters[CHOOSE i \in 1..Len(UpperLetters) : UpperLetters[i] = c]>>
         ELSE <<c>>

\* str.lower(): character by character, so the length can grow
RECURSIVE Lower(_)
Lower(s) == IF s = <<>> THEN <<>> ELSE LowerChar(Head(s)) \o Lower(Tail(s))

\* s[i:j] for i, j >= 0: both ends are clamped to len(s)
Slice(s, i, j) ==
    LET lo == Min(i, Len(s))
        hi == Min(j, Len(s))
    IN  IF lo >= hi THEN <<>> ELSE SubSeq(s, lo + 1, hi)

\* whether needle occurs in hay at offset p
OccursAt(hay, needle, p) ==
    /\ p >= 0
    /\ p + Len(needle) <= Len(hay)
    /\ \A k \in 1..Len(needle) : hay[p + k] = needle[k]

\* str.find(needle, from): the least offset >= from of an occurrence, or -1
Find(hay, needle, from) ==
    LET hits == {p \in from..Len(hay) : OccursAt(hay, needle, p)}
    IN  IF hits = {} THEN -1 ELSE CHOOSE p \in hits : \A q \in hits : p <= q

\* str.count(c) for a single character c
RECURSIVE Count(_, _)
Count(s, c) ==
    IF s = <<>> THEN 0
    ELSE (IF Head(s) = c THEN 1 ELSE 0) + Count(Tail(s), c)

\* str.endswith(suffix)
EndsWith(s, suffix) ==
    /\ Len(suffix) <= Len(s)
    /\ SubSeq(s, Len(s) - Len(suffix) + 1, Len(s)) = suffix

\* str.startswith(prefix)
StartsWith(s, prefix) ==
    /\ Len(prefix) <= Len(s)
    /\ SubSeq(s, 1, Len(prefix)) = prefix

\* str.split(sep) for a single character sep: the pieces between separators
RECURSIVE SplitFrom(_, _, _)
SplitFrom(s, sep, piece) ==
    IF s = <<>> THEN <<piece>>
    ELSE IF Head(s) = sep THEN <<piece>> \o SplitFrom(Tail(s), sep, <<>>)
    ELSE SplitFrom(Tail(s), sep, Append(piece, Head(s)))

Split(s, sep) == SplitFrom(s, sep, <<>>)

Last(seq) == seq[Len(seq)]

Whitespace == {" ", NL}

\* str.strip(): leading and trailing whitespace removed
RECURSIVE LStrip(_)
LStrip(s) == IF s # <<>> /\ Head(s) \in Whitespace THEN LStrip(Tail(s)) ELSE s

RECURSIVE RStrip(_)
RStrip(s) ==
    IF s # <<>> /\ Last(s) \in Whitespace THEN RStrip(SubSeq(s, 1, Len(s) - 1)) ELSE s

Strip(s) == RStrip(LStrip(s))

\* str(n) for n >= 0: decimal digits
Digits == Str("0123456789")

RECURSIVE Decimal(_)
Decimal(n) ==
    IF n < 10 THEN <<Digits[n + 1]>>
    ELSE Append(Decimal(n \div 10), Digits[(n % 10) + 1])

-----------------------------------------------------------------------------
(* The substring scan of search_file_content *)

\* the match dictionary built for a hit at offset pos
MatchAt(text, q, ctx, pos) ==
    LET context_start == Max(0, pos - ctx)
        context_end == Min(Len(text), pos + Len(q) + ctx)
    IN  [position |-> pos,
         context |-> Slice(text, context_start, context_end),
         line_number |-> Count(Slice(text, 0, pos), NL) + 1]

\* pos = content_lower.find(query_lower, start)
ScanPos(text, q, from) == Find(Lower(text), Lower(q), from)

\* the while loop from cursor `from` to the break, the text and the query
\* lowered once before it
RECURSIVE ScanLoop(_, _, _, _, _, _)
ScanLoop(text, content_lower, q, query_lower, ctx, from) ==
    LET pos == Find(content_lower, query_lower, from)
    IN  IF pos = -1 THEN <<>>
        ELSE <<MatchAt(text, q, ctx, pos)>>
                \o ScanLoop(text, content_lower, q, query_lower, ctx, pos + 1)

ScanFrom(text, q, ctx, from) == ScanLoop(text, Lower(text), q, Lower(q), ctx, from)

-----------------------------------------------------------------------------
(* The remote store and the content extractor *)

\* Python's None as a result or argument
None == "None"

\* the handle while it is None; client objects are numbered from 1
NoClient == [serial |-> 0]

\* outcomes of downloading a path: the path is missing (ApiError), the bytes
\* do not decode (invalid UTF-8, broken PDF or DOCX), or the bytes hold the
\* given chunks of text (pages of a PDF, paragraphs of a DOCX, the pieces of a
\* text file)
Missing == [kind |-> "missing"]
Corrupt == [kind |-> "corrupt"]
Holding(parts) == [kind |-> "ok", parts |-> parts]

Text50 == [i \in 1..50 |-> IF i % 10 = 0 THEN NL ELSE "a"]

\* what the text-like paths and the documents can hold
TextOutcomes ==
    {Missing, Corrupt, Holding(<<Str("aA")>>), Holding(<<Text50>>)}
DocOutcomes ==
    {Missing, Corrupt, Holding(<<>>), Holding(<<Str("a"), Str("A type")>>)}

P_txt == Str("/docs/a.txt")
P_pdf == Str("/docs/b.PDF")
P_docx == Str("/c.docx")
P_bin == Str("/d.bin")

Paths == {P_txt, P_pdf, P_docx, P_bin}

\* a store gives the text-like paths one outcome and the documents another
StoreOf(x, y) ==
    [p \in Paths |-> IF p \in {P_txt, P_bin} THEN x ELSE y]

Stores == {StoreOf(x, y) : x \in TextOutcomes, y \in DocOutcomes}

DefaultStore == StoreOf(Holding(<<Str("aA")>>), Corrupt)

\* text += part + "\n" for every part
RECURSIVE JoinLines(_)
JoinLines(parts) ==
    IF parts = <<>> THEN <<>> ELSE Head(parts) \o <<NL>> \o JoinLines(Tail(parts))

RECURSIVE Concat(_)
Concat(parts) == IF parts = <<>> THEN <<>> ELSE Head(parts) \o Concat(Tail(parts))

\* the message of the exception a decoder raises
DecoderMessage == Str("bad header")

\* what bytes that are not valid UTF-8 decode to as latin-1 (which never fails)
Latin1Text == <<"U+00FF", "a">>

PdfUnavailableText == Str("[PDF text extraction not available - install PyPDF2]")
PdfErrorText == Str("[Error extracting PDF text: ") \o DecoderMessage \o Str("]")
DocxUnavailableText == Str("[DOCX text extraction not available - install python-docx]")
DocxErrorText == Str("[Error extracting DOCX text: ") \o DecoderMessage \o Str("]")
UnsupportedPrefix == Str("[Unsupported file type: ")
UnsupportedSuffix == Str("]")

extract_text_from_pdf(payload) ==
    IF ~pdf_available THEN PdfUnavailableText
    ELSE IF payload = Corrupt THEN PdfErrorText
    ELSE Strip(JoinLines(payload.parts))

extract_text_from_docx(payload) ==
    IF ~docx_available THEN DocxUnavailableText
    ELSE IF payload = Corrupt THEN DocxErrorText
    ELSE Strip(JoinLines(payload.parts))

decode_text(payload) ==
    IF payload = Corrupt THEN Latin1Text ELSE Concat(payload.parts)

PdfExtension == Str("pdf")
DocxExtensions == {Str("docx"), Str("doc")}
TextExtensions ==
    {Str("txt"), Str("md"), Str("py"), Str("js"), Str("html"), Str("css"),
     Str("json"), Str("csv")}

\* whether a remote call made through the handle is accepted
RemoteAccepts == credential = "valid"

\* get_file_content: [raised, text]
get_file_content(client, file_path) ==
    IF client = NoClient THEN [raised |-> TRUE, text |-> <<>>]
    ELSE IF ~RemoteAccepts \/ store[file_path] = Missing
    THEN [raised |-> TRUE, text |-> <<>>]
    ELSE LET payload == store[file_path]
             file_ext == Last(Split(Lower(file_path), "."))
         IN  [raised |-> FALSE,
              text |-> IF file_ext = PdfExtension THEN extract_text_from_pdf(payload)
                       ELSE IF file_ext \in DocxExtensions
                            THEN extract_text_from_docx(payload)
                       ELSE IF file_ext \in TextExtensions THEN decode_text(payload)
                       ELSE UnsupportedPrefix \o file_ext \o UnsupportedSuffix]

-----------------------------------------------------------------------------
(* The client handle *)

\* initialize_dropbox_client: the handle is assigned before the connection
\* test, so it stays assigned when the test raises
initialize_dropbox_client(client, reachable) ==
    IF credential = "missing"
    THEN [client |-> client, ran |-> TRUE, built |-> 0, raised |-> TRUE]
    ELSE [client |-> [serial |-> constructed + 1], ran |-> TRUE, built |-> 1,
          raised |-> ~(RemoteAccepts /\ reachable)]

\* EnsureClient without its test of the handle
EnsureClientAlways(client, reachable) == initialize_dropbox_client(client, reachable)

\* if not dropbox_client: initialize_dropbox_client()
EnsureClient(client, reachable) ==
    IF client = NoClient
    THEN initialize_dropbox_client(client, reachable)
    ELSE [client |-> client, ran |-> FALSE, built |-> 0, raised |-> FALSE]

-----------------------------------------------------------------------------
(* Remote metadata: entries of a search, a listing or a metadata lookup *)

FileEntry(name, path) ==
    [kind |-> "file", name |-> Str(name), path_lower |-> Str(path),
     size |-> Len(Str(name)), server_modified |-> "2024-01-01T00:00:00"]

FolderEntry(name, path) ==
    [kind |-> "folder", name |-> Str(name), path_lower |-> Str(path)]

SearchEntries ==
    {FileEntry("Report.DOCX", "/report.docx"), FileEntry("memo.doc", "/memo.doc"),
     FileEntry("b.pdf", "/b.pdf"), FileEntry("n.md", "/n.md"),
     FolderEntry("old.docx", "/old.docx")}

ListEntries ==
    {FileEntry("a.txt", "/docs/a.txt"), FileEntry("c.docx", "/c.docx"),
     FolderEntry("docs", "/docs")}

\* the answer of a remote call: it raised, or it returned a value
Failure == [ok |-> FALSE]
Answer(value) == [ok |-> TRUE, value |-> value]
AnswersIn(S) == {Answer(v) : v \in S}

-----------------------------------------------------------------------------
(* search_files *)

AllExtensions ==
    <<Str(".pdf"), Str(".docx"), Str(".doc"), Str(".txt"), Str(".md"), Str(".py"),
      Str(".js"), Str(".html"), Str(".css"), Str(".json"), Str(".csv")>>

PdfExtensions == <<Str(".pdf")>>
WordExtensions == <<Str(".docx"), Str(".doc")>>
PlainExtensions == <<Str(".txt"), Str(".md")>>

TypeAll == Str("all")
TypePdf == Str("pdf")
TypeDocx == Str("docx")
TypeTxt == Str("txt")

\* the extension allow-list derived from file_types
ParseFileTypes(file_types) ==
    LET lowered == Lower(file_types)
        pieces == Split(file_types, ",")
    IN  IF lowered = TypeAll THEN AllExtensions
        ELSE IF lowered = TypePdf THEN PdfExtensions
        ELSE IF lowered = TypeDocx THEN WordExtensions
        ELSE IF lowered = TypeTxt THEN PlainExtensions
        ELSE [i \in 1..Len(pieces) |-> <<".">> \o Strip(pieces[i])]

FilenameMatchPrefix == Str("Filename match: ")

SearchResultOf(metadata) ==
    [file_path |-> metadata.path_lower,
     file_name |-> metadata.name,
     match_context |-> FilenameMatchPrefix \o metadata.name,
     file_size |-> metadata.size,
     modified |-> metadata.server_modified]

\* whether a candidate is appended: a file whose path ends with an extension
KeepsMatch(metadata, extensions) ==
    /\ metadata.kind = "file"
    /\ \E i \in 1..Len(extensions) : EndsWith(metadata.path_lower, extensions[i])

\* SearchLoop breaking one result late
RECURSIVE SearchLoopBreaksLate(_, _, _, _)
SearchLoopBreaksLate(candidates, results, extensions, max_results) ==
    IF candidates = <<>> \/ Len(results) > max_results THEN results
    ELSE SearchLoopBreaksLate(Tail(candidates),
                              IF KeepsMatch(Head(candidates), extensions)
                              THEN Append(results, SearchResultOf(Head(candidates)))
                              ELSE results,
                              extensions, max_results)

\* the loop over search_result.matches, with its break
RECURSIVE SearchLoop(_, _, _, _)
SearchLoop(candidates, results, extensions, max_results) ==
    IF candidates = <<>> \/ Len(results) >= max_results THEN results
    ELSE SearchLoop(Tail(candidates),
                    IF KeepsMatch(Head(candidates), extensions)
                    THEN Append(results, SearchResultOf(Head(candidates)))
                    ELSE results,
                    extensions, max_results)

\* the number of candidates asked of the remote search
RequestedCandidates(max_results) == max_results * 2

FileTypeInputs == {Str("all"), Str("PDF"), Str("docx"), Str("txt"), Str("md, doc")}

\* no request is being served
NoCall == [op |-> "none"]

\* recording a call that raised / returned
Raised(op, args, remote, ran) ==
    [op |-> op, args |-> args, remote |-> remote, ran_init |-> ran,
     outcome |-> "raised", result |-> None]

Returned(op, args, remote, ran, result) ==
    [op |-> op, args |-> args, remote |-> remote, ran_init |-> ran,
     outcome |-> "returned", result |-> result]

Untouched == UNCHANGED <<credential, phase, pdf_available, docx_available, store>>

SearchFiles ==
    /\ phase = "serving"
    /\ call = NoCall
    /\ \E file_types \in FileTypeInputs, max_results \in 0..MaxResults,
          reachable \in BOOLEAN :
       \E response \in {Failure} \cup
              (IF RemoteAccepts
               THEN AnswersIn(SeqsUpTo(SearchEntries,
                                       RequestedCandidates(max_results)))
               ELSE {}) :
         LET ec == EnsureClient(dropbox_client, reachable)
             args == [file_types |-> file_types, max_results |-> max_results]
         IN  /\ dropbox_client' = ec.client
             /\ constructed' = constructed + ec.built
             /\ call' = IF ec.raised THEN Raised("search_files", args, None, ec.ran)
                        ELSE IF ~response.ok
                        THEN Raised("search_files", args, response, ec.ran)
                        ELSE Returned("search_files", args, response, ec.ran,
                                      SearchLoop(response.value, <<>>,
                                                 ParseFileTypes(file_types),
                                                 max_results))
    /\ Untouched
    /\ UNCHANGED scanVars

-----------------------------------------------------------------------------
(* list_files *)

PreviewLength == 200

PreviewSuffixes == {Str(".txt"), Str(".md"), Str(".py"), Str(".js")}
PreviewFailedText == Str("[Could not load preview]")
PreviewEllipsis == Str("...")

\* the preview of a file entry: None, the first characters, or a placeholder
PreviewOf(client, entry) ==
    IF \E suffix \in PreviewSuffixes : EndsWith(Lower(entry.name), suffix)
    THEN LET got == get_file_content(client, entry.path_lower)
         IN  IF got.raised THEN PreviewFailedText
             ELSE IF Len(got.text) > PreviewLength
                  THEN Slice(got.text, 0, PreviewLength) \o PreviewEllipsis
                  ELSE got.text
    ELSE None

FileInfoOf(client, entry) ==
    IF entry.kind = "file"
    THEN [name |-> entry.name, path |-> entry.path_lower, size |-> entry.size,
          modified |-> entry.server_modified, is_folder |-> FALSE,
          content_preview |-> PreviewOf(client, entry)]
    ELSE [name |-> entry.name, path |-> entry.path_lower, size |-> 0,
          modified |-> "", is_folder |-> TRUE, content_preview |-> None]

\* folder_path made to start with "/" unless empty
NormalizeFolder(folder_path) ==
    IF folder_path # <<>> /\ ~StartsWith(folder_path, <<"/">>)
    THEN <<"/">> \o folder_path
    ELSE folder_path

FolderInputs == {Str(""), Str("docs"), Str("/docs")}

ListFiles ==
    /\ phase = "serving"
    /\ call = NoCall
    /\ \E folder_path \in FolderInputs, max_files \in 1..MaxFiles,
          reachable \in BOOLEAN :
       \E response \in {Failure} \cup
              (IF RemoteAccepts THEN AnswersIn(SeqsUpTo(ListEntries, max_files))
               ELSE {}) :
         LET ec == EnsureClient(dropbox_client, reachable)
             args == [folder_path |-> NormalizeFolder(folder_path),
                      max_files |-> max_files]
         IN  /\ dropbox_client' = ec.client
             /\ constructed' = constructed + ec.built
             /\ call' = IF ec.raised THEN Raised("list_files", args, None, ec.ran)
                        ELSE IF ~response.ok
                        THEN Raised("list_files", args, response, ec.ran)
                        ELSE Returned("list_files", args, response, ec.ran,
                                      [i \in 1..Len(response.value) |->
                                          FileInfoOf(ec.client, response.value[i])])
    /\ Untouched
    /\ UNCHANGED scanVars

-----------------------------------------------------------------------------
(* read_file *)

TruncationPrefix == <<NL, NL>> \o Str("[Content truncated - file has ")
TruncationSuffix == Str(" total characters]")

TruncationNote(total) == TruncationPrefix \o Decimal(total) \o TruncationSuffix

\* ReadFileResult with the note counting the returned characters
ReadFileResultCountsPrefix(text, max_length) ==
    IF max_length > 0 /\ Len(text) > max_length
    THEN Slice(text, 0, max_length) \o TruncationNote(max_length)
    ELSE text

\* the value read_file returns for the extracted content
ReadFileResult(text, max_length) ==
    IF max_length > 0 /\ Len(text) > max_length
    THEN Slice(text, 0, max_length) \o TruncationNote(Len(text))
    ELSE text

MaxLengthInputs == (-1..MaxReadLength) \cup {10}

ReadFile ==
    /\ phase = "serving"
    /\ call = NoCall
    /\ \E file_path \in Paths, max_length \in MaxLengthInputs, reachable \in BOOLEAN :
         LET ec == EnsureClient(dropbox_client, reachable)
             args == [file_path |-> file_path, max_length |-> max_length]
             got == get_file_content(ec.client, file_path)
         IN  /\ dropbox_client' = ec.client
             /\ constructed' = constructed + ec.built
             /\ call' = IF ec.raised THEN Raised("read_file", args, None, ec.ran)
                        ELSE IF got.raised
                        THEN Raised("read_file", args, Failure, ec.ran)
                        ELSE Returned("read_file", args, Answer(got.text), ec.ran,
                                      ReadFileResult(got.text, max_length))
    /\ Untouched
    /\ UNCHANGED scanVars

-----------------------------------------------------------------------------
(* get_file_info *)

GetFileInfo ==
    /\ phase = "serving"
    /\ call = NoCall
    /\ \E file_path \in Paths, reachable \in BOOLEAN :
       \E response \in {Failure} \cup (IF RemoteAccepts THEN AnswersIn(ListEntries) ELSE {}) :
         LET ec == EnsureClient(dropbox_client, reachable)
             args == [file_path |-> file_path]
         IN  /\ dropbox_client' = ec.client
             /\ constructed' = constructed + ec.built
             /\ call' = IF ec.raised THEN Raised("get_file_info", args, None, ec.ran)
                        ELSE IF ~response.ok
                        THEN Raised("get_file_info", args, response, ec.ran)
                        ELSE Returned("get_file_info", args, response, ec.ran,
                                      [FileInfoOf(ec.client, response.value)
                                          EXCEPT !.content_preview = None])
    /\ Untouched
    /\ UNCHANGED scanVars

-----------------------------------------------------------------------------
(* search_file_content *)

\* the entry appended for a path with at least one match
ContentResultOf(file_path, found) ==
    [file_path |-> file_path,
     file_name |-> Last(Split(file_path, "/")),
     matches |-> found,
     total_matches |-> Len(found)]

\* the body of the for loop for one path: the entries it appends
SearchOnePath(client, file_path, q, ctx) ==
    LET got == get_file_content(client, file_path)
        found == ScanFrom(got.text, q, ctx, 0)
    IN  IF got.raised \/ found = <<>> THEN <<>>
        ELSE <<ContentResultOf(file_path, found)>>

RECURSIVE SearchPaths(_, _, _, _)
SearchPaths(client, file_paths, q, ctx) ==
    IF file_paths = <<>> THEN <<>>
    ELSE SearchOnePath(client, Head(file_paths), q, ctx)
            \o SearchPaths(client, Tail(file_paths), q, ctx)

ToolQueries == {Str("a"), Str("Type")}

SearchFileContent ==
    /\ phase = "serving"
    /\ call = NoCall
    /\ \E file_paths \in SeqsUpTo(Paths, MaxPaths), q \in ToolQueries,
          ctx \in 0..MaxContext, reachable \in BOOLEAN :
         LET ec == EnsureClient(dropbox_client, reachable)
             args == [file_paths |-> file_paths, query |-> q, context_chars |-> ctx]
         IN  /\ dropbox_client' = ec.client
             /\ constructed' = constructed + ec.built
             /\ call' = IF ec.raised
                        THEN Raised("search_file_content", args, None, ec.ran)
                        ELSE Returned("search_file_content", args, None, ec.ran,
                                      SearchPaths(ec.client, file_paths, q, ctx))
    /\ Untouched
    /\ UNCHANGED scanVars

-----------------------------------------------------------------------------
(* main: the startup initialization, whose failure is logged and swallowed *)

Main ==
    /\ phase = "boot"
    /\ call = NoCall
    /\ \E reachable \in BOOLEAN :
         LET r == initialize_dropbox_client(dropbox_client, reachable)
         IN  /\ dropbox_client' = r.client
             /\ constructed' = constructed + r.built
             /\ call' = [op |-> "main", args |-> None, remote |-> None,
                         ran_init |-> r.ran, outcome |-> "returned",
                         result |-> IF r.raised THEN "init failed" ELSE "init ok"]
    /\ phase' = "serving"
    /\ UNCHANGED <<credential, pdf_available, docx_available, store>>
    /\ UNCHANGED scanVars

\* the outcome of the served request is handed to its caller; requests are
\* served one at a time
Deliver ==
    /\ call # NoCall
    /\ call' = NoCall
    /\ UNCHANGED <<credential, dropbox_client, constructed, phase, pdf_available,
                   docx_available, store>>
    /\ UNCHANGED scanVars

-----------------------------------------------------------------------------
(* Specifications *)

ScanIdle ==
    /\ content = <<>>
    /\ query = <<>>
    /\ context_chars = 0
    /\ start = 0
    /\ matches = <<>>
    /\ pc = "done"

ToolsIdle ==
    /\ credential = "valid"
    /\ dropbox_client = NoClient
    /\ constructed = 0
    /\ phase = "boot"
    /\ pdf_available = TRUE
    /\ docx_available = TRUE
    /\ store = DefaultStore
    /\ call = NoCall

\* the process: started through main, or loaded by a host that never calls it
\* (one store and both decoders installed; SpecContent varies them)
Init ==
    /\ credential \in {"missing", "rejected", "valid"}
    /\ dropbox_client = NoClient
    /\ constructed = 0
    /\ phase \in {"boot", "serving"}
    /\ pdf_available = TRUE
    /\ docx_available = TRUE
    /\ store = DefaultStore
    /\ call = NoCall
    /\ ScanIdle

Next ==
    \/ Main
    \/ SearchFiles
    \/ ListFiles
    \/ ReadFile
    \/ GetFileInfo
    \/ SearchFileContent
    \/ Deliver

Spec == Init /\ [][Next]_vars

\* content extraction over every store and decoder availability
ContentInit ==
    /\ credential = "valid"
    /\ dropbox_client = NoClient
    /\ constructed = 0
    /\ phase = "serving"
    /\ pdf_available \in BOOLEAN
    /\ docx_available \in BOOLEAN
    /\ store \in Stores
    /\ call = NoCall
    /\ ScanIdle

ContentNext == ReadFile \/ SearchFileContent \/ Deliver

SpecContent == ContentInit /\ [][ContentNext]_vars

\* read_file alone, over every store and decoder availability
ReadNext == ReadFile \/ Deliver

SpecRead == ContentInit /\ [][ReadNext]_vars

\* the scan loop, one iteration per step

\* one iteration that finds an occurrence
ScanHit ==
    /\ pc = "scan"
    /\ LET pos == ScanPos(content, query, start)
       IN  /\ pos # -1
           /\ matches' = Append(matches, MatchAt(content, query, context_chars, pos))
           /\ start' = pos + 1
    /\ UNCHANGED <<content, query, context_chars, pc>>
    /\ UNCHANGED toolVars

\* the iteration whose find fails: break
ScanStop ==
    /\ pc = "scan"
    /\ ScanPos(content, query, start) = -1
    /\ pc' = "done"
    /\ UNCHANGED <<content, query, context_chars, start, matches>>
    /\ UNCHANGED toolVars

ScanInit ==
    /\ content \in Texts
    /\ query \in Queries
    /\ context_chars \in 0..MaxContext
    /\ start = 0
    /\ matches = <<>>
    /\ pc = "scan"
    /\ ToolsIdle

ScanNext == ScanHit \/ ScanStop

SpecScan == ScanInit /\ [][ScanNext]_vars

-----------------------------------------------------------------------------
(* Properties of the substring scan, under SpecScan *)

\* the offsets at which the lowered query occurs in the lowered text
Occurrences(text, q) ==
    {p \in 0..Len(Lower(text)) : OccursAt(Lower(text), Lower(q), p)}

PositionsOf(found) == {found[i].position : i \in 1..Len(found)}

\* C1: for a non-empty query the finished scan reports exactly one match per
\* offset at which lower(Q) occurs in lower(T), in strictly ascending order,
\* and no match at all when T is empty or Q is longer than T.
C1_ExactOccurrences ==
    (pc = "done" /\ query # <<>>) =>
        /\ PositionsOf(matches) = Occurrences(content, query)
        /\ \A i, j \in 1..Len(matches) :
              i < j => matches[i].position < matches[j].position
        /\ (content = <<>> \/ Len(query) > Len(content)) => matches = <<>>

\* C2: the context of every match is the substring of T from max(0, p - c) to
\* min(len(T), p + len(Q) + c), lies inside [0, len(T)], contains the matched
\* span, and for c = 0 is exactly T[p : p + len(Q)].
C2_ContextWindow ==
    \A i \in 1..Len(matches) :
        LET p == matches[i].position
            lo == Max(0, p - context_chars)
            hi == Min(Len(content), p + Len(query) + context_chars)
        IN  /\ 0 <= lo /\ lo <= hi /\ hi <= Len(content)
            /\ matches[i].context = SubSeq(content, lo + 1, hi)
            /\ lo <= p /\ p + Len(query) <= hi
            /\ context_chars = 0 =>
                  /\ Len(matches[i].context) = Len(query)
                  /\ matches[i].context = SubSeq(content, p + 1, p + Len(query))

\* C9: every reported position is a match start in the original text: the
\* original characters at T[p : p + len(Q)] lower to lower(Q), and line_number
\* is 1 plus the newlines of T[0 : p].
C9_OffsetsInOriginal ==
    \A i \in 1..Len(matches) :
        LET p == matches[i].position
        IN  /\ p + Len(query) <= Len(content)
            /\ Lower(SubSeq(content, p + 1, p + Len(query))) = Lower(query)
            /\ matches[i].line_number = 1 + Count(SubSeq(content, 1, p), NL)

\* C10: the cursor is one past the last reported position, the loop makes at
\* most len(T) + 1 successful iterations, it can always take its next step
\* until it stops, and for the empty query it reports exactly the positions
\* 0..len(T).
C10_ScanBounded ==
    /\ Len(matches) <= Len(content) + 1
    /\ matches # <<>> => start = matches[Len(matches)].position + 1
    /\ pc = "scan" => ENABLED ScanNext
    /\ (pc = "done" /\ query = <<>>) =>
          /\ Len(matches) = Len(content) + 1
          /\ \A i \in 1..Len(matches) : matches[i].position = i - 1

-----------------------------------------------------------------------------
(* Properties of content extraction, under SpecContent and SpecRead *)

\* a download of the path fails
DownloadFails(path) == store[path] = Missing

\* the decoder of the path's type raised on the downloaded bytes
DecoderRaised(path) ==
    \/ path = P_pdf /\ pdf_available /\ store[path] = Corrupt
    \/ path = P_docx /\ docx_available /\ store[path] = Corrupt

\* the content of the path could not be extracted: the decoder raised, is not
\* installed, or the type is unsupported
ExtractionFailed(path) ==
    /\ ~DownloadFails(path)
    /\ \/ DecoderRaised(path)
       \/ path = P_pdf /\ ~pdf_available
       \/ path = P_docx /\ ~docx_available
       \/ path = P_bin

\* the query occurs in the text extracted from the path
QueryOccurs(path, q) ==
    LET got == get_file_content(dropbox_client, path)
    IN  ~got.raised /\ Occurrences(got.text, q) # {}

\* C3: with the handle in place, search_file_content returns normally, a path
\* whose download or extraction failed contributes no entry, and every other
\* path with a match contributes exactly one entry, in the order of file_paths.
C3_BatchIsolation ==
    (call # NoCall /\ call.op = "search_file_content" /\ ~call.ran_init) =>
        /\ call.outcome = "returned"
        /\ LET contributing ==
                  SelectSeq(call.args.file_paths,
                            LAMBDA path : /\ ~DownloadFails(path)
                                          /\ ~DecoderRaised(path)
                                          /\ QueryOccurs(path, call.args.query))
           IN  /\ Len(call.result) = Len(contributing)
               /\ \A i \in 1..Len(contributing) :
                     call.result[i].file_path = contributing[i]

\* C5: a file whose extraction failed makes read_file fail for that file, and
\* search_file_content reports no matches for it.
C5_ExtractionFailureSurfaced ==
    /\ (call # NoCall /\ call.op = "read_file"
            /\ ExtractionFailed(call.args.file_path)) => call.outcome = "raised"
    /\ (call # NoCall /\ call.op = "search_file_content"
            /\ call.outcome = "returned") =>
          \A i \in 1..Len(call.result) : ~ExtractionFailed(call.result[i].file_path)

DigitValue(c) == (CHOOSE d \in 1..Len(Digits) : Digits[d] = c) - 1

RECURSIVE ParseDecimal(_)
ParseDecimal(digits) ==
    IF digits = <<>> THEN 0
    ELSE 10 * ParseDecimal(SubSeq(digits, 1, Len(digits) - 1))
            + DigitValue(digits[Len(digits)])

\* the text is a truncation note stating the count `total`
IsTruncationNote(note, total) ==
    /\ StartsWith(note, TruncationPrefix)
    /\ EndsWith(note, TruncationSuffix)
    /\ Len(note) > Len(TruncationPrefix) + Len(TruncationSuffix)
    /\ LET stated == SubSeq(note, Len(TruncationPrefix) + 1,
                            Len(note) - Len(TruncationSuffix))
       IN  /\ \A k \in 1..Len(stated) : \E d \in 1..Len(Digits) : Digits[d] = stated[k]
           /\ ParseDecimal(stated) = total

\* C7: read_file returns the extracted content unchanged when max_length <= 0
\* or the content is no longer than max_length; otherwise the first max_length
\* characters followed by a note stating the total character count.
C7_ReadFileTruncation ==
    (call # NoCall /\ call.op = "read_file" /\ call.outcome = "returned") =>
        LET text == call.remote.value
            max_length == call.args.max_length
            result == call.result
        IN  IF max_length <= 0 \/ Len(text) <= max_length
            THEN result = text
            ELSE /\ Len(result) > max_length
                 /\ SubSeq(result, 1, max_length) = SubSeq(text, 1, max_length)
                 /\ IsTruncationNote(SubSeq(result, max_length + 1, Len(result)),
                                     Len(text))

\* read_file(max_length = 10) returned 10 of 50 characters and the note
C7_Witness ==
    /\ call # NoCall
    /\ call.op = "read_file"
    /\ call.outcome = "returned"
    /\ call.args.max_length = 10
    /\ Len(call.remote.value) = 50
    /\ Len(call.result) > 10

-----------------------------------------------------------------------------
(* Properties of the tool surface, under Spec *)

ToolOperations ==
    {"search_files", "list_files", "read_file", "get_file_info", "search_file_content"}

\* the call has to reach the remote: every call but a content search of no path
NeedsRemote(c) ==
    c.op = "search_file_content" => c.args.file_paths # <<>>

\* C4: while the remote rejects the credential, every call of every tool
\* operation (that has to reach the remote) fails towards its caller, also
\* after an earlier initialization attempt failed.
C4_AuthFailureSurfaced ==
    (call # NoCall /\ call.op \in ToolOperations /\ credential = "rejected"
        /\ NeedsRemote(call)) => call.outcome = "raised"

\* the candidates of the remote that are files with an allowed extension
AllowedFiles(candidates, extensions) ==
    SelectSeq(candidates,
              LAMBDA entry :
                  /\ entry.kind = "file"
                  /\ \E i \in 1..Len(extensions) :
                        EndsWith(entry.path_lower, extensions[i]))

\* C6: search_files asks the remote for 2 * max_results candidates and returns
\* the first max_results of those that are files with an allowed extension, in
\* remote order: never more than max_results, never a folder, and for
\* file_types = "docx" nothing that is not .docx or .doc.
C6_SearchFilesFilter ==
    (call # NoCall /\ call.op = "search_files" /\ call.outcome = "returned") =>
        LET candidates == call.remote.value
            max_results == call.args.max_results
            allowed == AllowedFiles(candidates, ParseFileTypes(call.args.file_types))
            result == call.result
        IN  /\ Len(candidates) <= 2 * max_results
            /\ Len(result) = Min(max_results, Len(allowed))
            /\ \A i \in 1..Len(result) :
                  /\ result[i].file_path = allowed[i].path_lower
                  /\ result[i].file_name = allowed[i].name
                  /\ \E k \in 1..Len(candidates) :
                        /\ candidates[k].kind = "file"
                        /\ candidates[k].path_lower = result[i].file_path
            /\ call.args.file_types = TypeDocx =>
                  \A i \in 1..Len(result) :
                      \/ EndsWith(result[i].file_path, Str(".docx"))
                      \/ EndsWith(result[i].file_path, Str(".doc"))

\* search_files("docx", 1) dropped a folder named like a document and a PDF
\* and returned the one document
C6_Witness ==
    /\ call # NoCall
    /\ call.op = "search_files"
    /\ call.outcome = "returned"
    /\ call.args.file_types = TypeDocx
    /\ Len(call.remote.value) = 2
    /\ call.remote.value[1].kind = "folder"
    /\ EndsWith(call.remote.value[1].path_lower, Str(".docx"))
    /\ Len(call.result) = 1

\* C8: the handle is assigned at most once: an operation runs the
\* initialization only when the handle is unset on entry, and a handle that is
\* set is never replaced.
C8_HandleInitializedOnce ==
    [][/\ (call' # NoCall /\ call' # call /\ call'.ran_init)
            => dropbox_client = NoClient
       /\ dropbox_client # NoClient
            => (dropbox_client' = dropbox_client /\ constructed' = constructed)
       /\ constructed' <= 1]_vars

\* a tool call served through the handle an earlier initialization had set
C8_Witness ==
    /\ call # NoCall
    /\ call.op \in ToolOperations
    /\ ~call.ran_init
    /\ dropbox_client # NoClient
    /\ constructed = 1

====
